---- MODULE Spec2Model ----
(***************************************************************************)
(* A model of ufw_tui.py: the UFWManager data holder, the UFWTUI           *)
(* controller (menu, selection, focus, view, message), its input dispatch  *)
(* and its screen composition.  The external tools (ufw, ss) and the       *)
(* operator at the keyboard are the environment: every result they can     *)
(* give is an input of the action that asks for it.                        *)
(***************************************************************************)
EXTENDS Integers, Sequences, FiniteSets, TLC

(***************************************************************************)
(* Bounds of the model.                                                    *)
(***************************************************************************)
\* the external tool reports at most MaxRules rules
MaxRules == 2
\* the external tool reports at most MaxApps application profiles
MaxApps == 1
\* the socket lister reports at most MaxPorts listening sockets
MaxPorts == 1

(***************************************************************************)
(* Strings.  TLC gives Len, \o and SubSeq on strings; the Python string    *)
(* methods the program uses are built from them.                           *)
(***************************************************************************)
Min(a, b) == IF a < b THEN a ELSE b
Max(a, b) == IF a > b THEN a ELSE b

UpperAlpha == "ABCDEFGHIJKLMNOPQRSTUVWXYZ"
LowerAlpha == "abcdefghijklmnopqrstuvwxyz"

CharAt(s, i) == SubSeq(s, i, i)

LowerChar(c) ==
    IF \E i \in 1..26 : CharAt(UpperAlpha, i) = c
    THEN CharAt(LowerAlpha, CHOOSE i \in 1..26 : CharAt(UpperAlpha, i) = c)
    ELSE c

UpperChar(c) ==
    IF \E i \in 1..26 : CharAt(LowerAlpha, i) = c
    THEN CharAt(UpperAlpha, CHOOSE i \in 1..26 : CharAt(LowerAlpha, i) = c)
    ELSE c

RECURSIVE Upper(_)
\* str.upper()
Upper(s) == IF Len(s) = 0 THEN "" ELSE UpperChar(CharAt(s, 1)) \o Upper(SubSeq(s, 2, Len(s)))

RECURSIVE Lower(_)
\* str.lower()
Lower(s) == IF Len(s) = 0 THEN "" ELSE LowerChar(CharAt(s, 1)) \o Lower(SubSeq(s, 2, Len(s)))

\* sub in s
Contains(sub, s) ==
    \E i \in 1..(Len(s) - Len(sub) + 1) : SubSeq(s, i, i + Len(sub) - 1) = sub

RECURSIVE Spaces(_)
Spaces(n) == IF n <= 0 THEN "" ELSE " " \o Spaces(n - 1)

\* str.ljust(w), f"{s:<w}"
LJust(s, w) == s \o Spaces(w - Len(s))
\* f"{s:>w}"
RJust(s, w) == Spaces(w - Len(s)) \o s
\* s[:n] for n >= 0
Prefix(s, n) == SubSeq(s, 1, Min(n, Len(s)))

IsSpace(c) == c = " "

RECURSIVE SplitFrom(_, _, _)
\* the tokens of s from position i on, cur being the token read so far
SplitFrom(s, i, cur) ==
    IF i > Len(s)
    THEN IF cur = "" THEN <<>> ELSE <<cur>>
    ELSE IF IsSpace(CharAt(s, i))
         THEN (IF cur = "" THEN <<>> ELSE <<cur>>) \o SplitFrom(s, i + 1, "")
         ELSE SplitFrom(s, i + 1, cur \o CharAt(s, i))

\* str.split()
Split(s) == SplitFrom(s, 1, "")

RECURSIVE StripLeft(_)
StripLeft(s) == IF Len(s) > 0 /\ IsSpace(CharAt(s, 1)) THEN StripLeft(SubSeq(s, 2, Len(s))) ELSE s
RECURSIVE StripRight(_)
StripRight(s) ==
    IF Len(s) > 0 /\ IsSpace(CharAt(s, Len(s))) THEN StripRight(SubSeq(s, 1, Len(s) - 1)) ELSE s
\* str.strip()
Strip(s) == StripRight(StripLeft(s))

(***************************************************************************)
(* The program's state.                                                    *)
(***************************************************************************)
VARIABLES
    rules,            \* UFWManager.rules
    apps,             \* UFWManager.apps
    listening_ports,  \* UFWManager.listening_ports
    current_view,     \* UFWTUI.current_view
    selected_left,    \* UFWTUI.selected_left
    selected_right,   \* UFWTUI.selected_right
    focus_left,       \* UFWTUI.focus_left
    message,          \* UFWTUI.message
    running,          \* UFWTUI.running
    left_commands,    \* UFWTUI.left_commands
    size,             \* <<height, width>> as stdscr.getmaxyx() reports it
    pc,               \* position in the loop of run: "draw", "input", "done"
    key,              \* the key getch returned in the last step ("": it read none)
    op,               \* the method the last step ran
    ext,              \* outcome of the mutating external call of the last step
    calls,            \* the commands run_command ran in the last step, in order
    fetched,          \* what the three fetches of the last step returned, if it fetched
    typed             \* the texts the operator typed at the prompts of the last step

data == <<rules, apps, listening_ports>>
ui == <<current_view, selected_left, selected_right, focus_left, message, running>>
env == <<left_commands, size>>
vars == <<rules, apps, listening_ports, current_view, selected_left, selected_right,
          focus_left, message, running, left_commands, size, pc, key, op, ext, calls,
          fetched, typed>>

(***************************************************************************)
(* The environment: what the external tools can answer.                    *)
(***************************************************************************)
Digits == <<"1", "2", "3", "4", "5", "6", "7", "8", "9">>

UFWRule(n) == [num |-> Digits[n], to |-> "22/tcp IN", action |-> "ALLOW", from_addr |-> "Anywhere"]

\* what 'ufw status numbered' can list: the tool numbers its rules from 1
RuleLists == {[i \in 1..n |-> UFWRule(i)] : n \in 0..MaxRules}

AppNames == <<"OpenSSH", "Nginx Full", "CUPS", "Samba">>
AppLists == {[i \in 1..n |-> AppNames[i]] : n \in 0..MaxApps}

Sockets == <<<<"tcp", "22", "LISTEN">>, <<"udp", "53", "UNCONN">>,
             <<"tcp", "8080", "LISTEN">>, <<"tcp", "443", "LISTEN">>>>
PortLists == {[i \in 1..n |-> Sockets[i]] : n \in 0..MaxPorts}

\* a fetch: the exit code and what the output parses to
FetchResults(lists) == {[code |-> 0, items |-> l] : l \in lists} \cup {[code |-> 1, items |-> <<>>]}

Stderrs == {"", "ERROR: Bad port"}
\* run_command's (stderr, returncode) for a mutating command
CmdResults ==
    {[err |-> "", code |-> 0]} \cup {[err |-> e, code |-> 1] : e \in Stderrs}
    \cup {[err |-> "Timeout", code |-> 1]}

\* what the operator can type at a prompt
TypedRules == {"", " ", " 22 ", "from  10.0.0.1"}
TypedConfirms == {"", "y", " Y", "n"}

(***************************************************************************)
(* UFWManager.                                                             *)
(***************************************************************************)
StatusCmd == <<"sudo", "ufw", "status">>
RulesCmd == <<"sudo", "ufw", "status", "numbered">>
AppsCmd == <<"sudo", "ufw", "app", "list">>
PortsCmd == <<"ss", "-tuln">>
RefreshCmds == <<RulesCmd, AppsCmd, PortsCmd>>

\* get_rules, get_apps, get_listening_ports: nothing when the command failed
get_rules(res) == IF res.code # 0 THEN <<>> ELSE res.items
get_apps(res) == IF res.code # 0 THEN <<>> ELSE res.items
get_listening_ports(res) == IF res.code # 0 THEN <<>> ELSE res.items

\* refresh_data, given up at the first fetch that fails
refresh_data_aborting ==
    \E fr \in FetchResults(RuleLists), fa \in FetchResults(AppLists),
       fl \in FetchResults(PortLists) :
        /\ rules' = get_rules(fr)
        /\ IF fr.code # 0
           THEN UNCHANGED <<apps, listening_ports>>
           ELSE /\ apps' = get_apps(fa)
                /\ listening_ports' = get_listening_ports(fl)
        /\ fetched' = <<fr, fa, fl>>

\* refresh_data: each collection is what its fetch gives, whatever the tool answers
refresh_data ==
    \E fr \in FetchResults(RuleLists), fa \in FetchResults(AppLists),
       fl \in FetchResults(PortLists) :
        /\ rules' = get_rules(fr)
        /\ apps' = get_apps(fa)
        /\ listening_ports' = get_listening_ports(fl)
        /\ fetched' = <<fr, fa, fl>>

\* add_rule, passing the rule as one argument
add_rule_unsplit(rule, res) ==
    [cmd |-> <<"sudo", "ufw", rule>>,
     ok |-> res.code = 0,
     msg |-> IF res.code # 0 THEN res.err ELSE "Rule added successfully"]

\* add_rule: the command run, and (success, message)
add_rule(rule, res) ==
    [cmd |-> <<"sudo", "ufw">> \o Split(rule),
     ok |-> res.code = 0,
     msg |-> IF res.code # 0 THEN res.err ELSE "Rule added successfully"]

delete_rule(rule_num, res) ==
    [cmd |-> <<"sudo", "ufw", "delete", rule_num>>,
     ok |-> res.code = 0,
     msg |-> IF res.code # 0 THEN res.err ELSE "Rule deleted successfully"]

\* toggle_ufw, active being what get_ufw_status found
toggle_ufw(active, res) ==
    IF active
    THEN [cmd |-> <<"sudo", "ufw", "disable">>, ok |-> res.code = 0,
          msg |-> IF res.code # 0 THEN res.err ELSE "UFW disabled"]
    ELSE [cmd |-> <<"sudo", "ufw", "enable">>, ok |-> res.code = 0,
          msg |-> IF res.code # 0 THEN res.err ELSE "UFW enabled"]

(***************************************************************************)
(* UFWTUI: the menu and the state after construction.                      *)
(***************************************************************************)
Entry(cmd, func) == [cmd |-> cmd, func |-> func]

LeftCommands ==
    << Entry("Add ALLOW rule", "add_allow_rule"),
       Entry("Add DENY rule", "add_deny_rule"),
       Entry("Delete rule", "delete_selected_rule"),
       Entry("", "None"),
       Entry("Enable/Disable UFW", "toggle_firewall"),
       Entry("Reset UFW", "reset_firewall"),
       Entry("", "None"),
       Entry("View: Rules", "change_view_rules"),
       Entry("View: Applications", "change_view_apps"),
       Entry("View: Listening ports", "change_view_listening"),
       Entry("", "None"),
       Entry("Refresh data", "refresh"),
       Entry("Exit", "quit_app") >>

\* the terminal the program is started in, as <<height, width>>: the least
\* width, and a height that holds the whole menu
TermSizes == {<<16, 40>>}

\* UFWManager.__init__ and UFWTUI.__init__, then run up to the loop
InitWith(menus, sizes) ==
    /\ \E fr \in FetchResults(RuleLists), fa \in FetchResults(AppLists),
          fl \in FetchResults(PortLists) :
           /\ rules = get_rules(fr)
           /\ apps = get_apps(fa)
           /\ listening_ports = get_listening_ports(fl)
           /\ fetched = <<fr, fa, fl>>
    /\ current_view = "rules"
    /\ selected_left = 0
    /\ selected_right = 0
    /\ focus_left = TRUE
    /\ message = ""
    /\ running = TRUE
    /\ left_commands \in menus
    /\ size \in sizes
    /\ pc = "draw"
    /\ key = ""
    /\ op = "__init__"
    /\ ext = "none"
    /\ calls = RefreshCmds
    /\ typed = <<>>

Init == InitWith({LeftCommands}, TermSizes)

\* the entries with a label, in order
RECURSIVE Visible(_)
Visible(cmds) ==
    IF cmds = <<>> THEN <<>>
    ELSE IF Head(cmds).cmd # "" THEN <<Head(cmds)>> \o Visible(Tail(cmds))
         ELSE Visible(Tail(cmds))

\* the collection the right panel shows
ActiveCollection ==
    IF current_view = "rules" THEN rules
    ELSE IF current_view = "apps" THEN apps
    ELSE listening_ports

(***************************************************************************)
(* The methods a key or a menu entry runs.  Each states the program's      *)
(* variables, op, ext and calls; the key handlers below add the rest.      *)
(***************************************************************************)
\* get_input: what was typed, stripped
get_input(user_input) == Strip(user_input)

\* clamped, wrapping round at either end instead
clamped_wrapping(selected, direction, max_index) ==
    IF max_index >= 0 THEN (selected + direction) % (max_index + 1) ELSE selected

\* max(0, min(max_index, selected + direction)), when there is an entry at all
clamped(selected, direction, max_index) ==
    IF max_index >= 0 THEN Max(0, Min(max_index, selected + direction)) ELSE selected

\* moved_left, with the number of entries taken for the last index
moved_left_past_end(selected, direction) ==
    LET max_left == Len(Visible(left_commands)) IN clamped(selected, direction, max_left)

\* what move_selection makes of a left selection
moved_left(selected, direction) ==
    LET max_left == Len(Visible(left_commands)) - 1 IN clamped(selected, direction, max_left)

\* what move_selection makes of a right selection
moved_right(selected, direction) ==
    LET max_right == Len(ActiveCollection) - 1 IN clamped(selected, direction, max_right)

move_selection(direction, left) ==
    /\ IF left
       THEN /\ selected_left' = moved_left(selected_left, direction)
            /\ UNCHANGED selected_right
       ELSE /\ selected_right' = moved_right(selected_right, direction)
            /\ UNCHANGED selected_left
    /\ UNCHANGED <<data, current_view, focus_left, message, running>>
    /\ op' = "move_selection"
    /\ ext' = "none"
    /\ calls' = <<>>
    /\ fetched' = <<>>
    /\ typed' = <<>>

\* change_view, leaving the right selection where it was
change_view_keeping(view_mode) ==
    /\ current_view' = view_mode
    /\ UNCHANGED selected_right
    /\ message' = "View changed: " \o view_mode
    /\ UNCHANGED <<data, selected_left, focus_left, running>>
    /\ op' = "change_view"
    /\ ext' = "none"
    /\ calls' = <<>>
    /\ fetched' = <<>>
    /\ typed' = <<>>

change_view(view_mode) ==
    /\ current_view' = view_mode
    /\ selected_right' = 0
    /\ message' = "View changed: " \o view_mode
    /\ UNCHANGED <<data, selected_left, focus_left, running>>
    /\ op' = "change_view"
    /\ ext' = "none"
    /\ calls' = <<>>
    /\ fetched' = <<>>
    /\ typed' = <<>>

\* the body of refresh: refresh_data, then the message
refresh_body ==
    /\ refresh_data
    /\ message' = "Data refreshed"

\* refresh, bringing the right selection back inside the collection shown
refresh_clamping ==
    /\ refresh_body
    /\ UNCHANGED <<current_view, selected_left, focus_left, running>>
    /\ selected_right' = Max(0, Min(selected_right, Len(ActiveCollection') - 1))
    /\ op' = "refresh"
    /\ ext' = "none"
    /\ calls' = RefreshCmds
    /\ typed' = <<>>

refresh ==
    /\ refresh_body
    /\ UNCHANGED <<current_view, selected_left, selected_right, focus_left, running>>
    /\ op' = "refresh"
    /\ ext' = "none"
    /\ calls' = RefreshCmds
    /\ typed' = <<>>

\* add_rule_action, keeping the rule list held when the tool accepted the rule
add_rule_action_unrefreshed(word, name) ==
    \E text \in TypedRules, res \in CmdResults :
        LET rule == get_input(text)
            r == add_rule(word \o " " \o rule, res)
        IN  /\ op' = name
            /\ typed' = <<text>>
            /\ fetched' = <<>>
            /\ UNCHANGED <<data, current_view, selected_left, selected_right, focus_left, running>>
            /\ IF rule # ""
               THEN /\ message' = r.msg
                    /\ ext' = IF r.ok THEN "ok" ELSE "failed"
                    /\ calls' = <<r.cmd>>
               ELSE /\ UNCHANGED message
                    /\ ext' = "none"
                    /\ calls' = <<>>

\* add_allow_rule and add_deny_rule differ in the action word only
add_rule_action(word, name) ==
    \E text \in TypedRules :
        LET rule == get_input(text)
        IN  /\ op' = name
            /\ typed' = <<text>>
            /\ UNCHANGED <<current_view, selected_left, selected_right, focus_left, running>>
            /\ IF rule # ""
               THEN \E res \in CmdResults :
                        LET r == add_rule(word \o " " \o rule, res)
                        IN  IF r.ok
                            THEN /\ refresh_body
                                 /\ ext' = "ok"
                                 /\ calls' = <<r.cmd>> \o RefreshCmds
                            ELSE /\ message' = r.msg
                                 /\ UNCHANGED data
                                 /\ ext' = "failed"
                                 /\ calls' = <<r.cmd>>
                                 /\ fetched' = <<>>
               ELSE /\ UNCHANGED <<data, message>>
                    /\ ext' = "none"
                    /\ calls' = <<>>
                    /\ fetched' = <<>>

add_allow_rule == add_rule_action("allow", "add_allow_rule")

add_deny_rule == add_rule_action("deny", "add_deny_rule")

\* delete_selected_rule, whatever the view
delete_selected_rule_any_view ==
    /\ op' = "delete_selected_rule"
    /\ UNCHANGED <<current_view, selected_left, selected_right, focus_left, running>>
    /\ IF selected_right < Len(rules)
       THEN \E text \in TypedConfirms :
                LET rule == rules[selected_right + 1]
                    confirm == get_input(text)
                IN  /\ typed' = <<text>>
                    /\ IF Lower(confirm) = "y"
                       THEN \E res \in CmdResults :
                                LET r == delete_rule(rule.num, res)
                                IN  IF r.ok
                                    THEN /\ refresh_body
                                         /\ ext' = "ok"
                                         /\ calls' = <<r.cmd>> \o RefreshCmds
                                    ELSE /\ message' = r.msg
                                         /\ UNCHANGED data
                                         /\ ext' = "failed"
                                         /\ calls' = <<r.cmd>>
                                         /\ fetched' = <<>>
                       ELSE /\ UNCHANGED <<data, message>>
                            /\ ext' = "none"
                            /\ calls' = <<>>
                            /\ fetched' = <<>>
       ELSE /\ message' = "Select a rule to delete"
            /\ UNCHANGED data
            /\ ext' = "none"
            /\ calls' = <<>>
            /\ fetched' = <<>>
            /\ typed' = <<>>

delete_selected_rule ==
    /\ op' = "delete_selected_rule"
    /\ UNCHANGED <<current_view, selected_left, selected_right, focus_left, running>>
    /\ IF current_view = "rules" /\ selected_right < Len(rules)
       THEN \E text \in TypedConfirms :
                LET rule == rules[selected_right + 1]
                    confirm == get_input(text)
                IN  /\ typed' = <<text>>
                    /\ IF Lower(confirm) = "y"
                       THEN \E res \in CmdResults :
                                LET r == delete_rule(rule.num, res)
                                IN  IF r.ok
                                    THEN /\ refresh_body
                                         /\ ext' = "ok"
                                         /\ calls' = <<r.cmd>> \o RefreshCmds
                                    ELSE /\ message' = r.msg
                                         /\ UNCHANGED data
                                         /\ ext' = "failed"
                                         /\ calls' = <<r.cmd>>
                                         /\ fetched' = <<>>
                       ELSE /\ UNCHANGED <<data, message>>
                            /\ ext' = "none"
                            /\ calls' = <<>>
                            /\ fetched' = <<>>
       ELSE /\ message' = "Select a rule to delete"
            /\ UNCHANGED data
            /\ ext' = "none"
            /\ calls' = <<>>
            /\ fetched' = <<>>
            /\ typed' = <<>>

toggle_firewall ==
    \E active \in BOOLEAN, res \in CmdResults :
        LET r == toggle_ufw(active, res) IN
        /\ message' = r.msg
        /\ UNCHANGED <<data, current_view, selected_left, selected_right, focus_left, running>>
        /\ op' = "toggle_firewall"
        /\ ext' = IF r.ok THEN "ok" ELSE "failed"
        /\ calls' = <<StatusCmd, r.cmd>>
        /\ fetched' = <<>>
        /\ typed' = <<>>

reset_firewall ==
    /\ op' = "reset_firewall"
    /\ UNCHANGED <<current_view, selected_left, selected_right, focus_left, running>>
    /\ \E text \in TypedConfirms :
           LET confirm == get_input(text) IN
           /\ typed' = <<text>>
           /\ IF Lower(confirm) = "y"
              THEN \* the message set from the exit code is replaced by refresh's,
                   \* so of the command's result the exit code alone is kept
                   \E code \in {res.code : res \in CmdResults} :
                       /\ refresh_body
                       /\ ext' = IF code = 0 THEN "ok" ELSE "failed"
                       /\ calls' = <<<<"sudo", "ufw", "--force", "reset">>>> \o RefreshCmds
              ELSE /\ UNCHANGED <<data, message>>
                   /\ ext' = "none"
                   /\ calls' = <<>>
                   /\ fetched' = <<>>

quit_app ==
    /\ running' = FALSE
    /\ UNCHANGED <<data, current_view, selected_left, selected_right, focus_left, message>>
    /\ op' = "quit_app"
    /\ ext' = "none"
    /\ calls' = <<>>
    /\ fetched' = <<>>
    /\ typed' = <<>>

\* nothing, but for the message, which it clears
nothing_clearing(name) ==
    /\ message' = ""
    /\ UNCHANGED <<data, current_view, selected_left, selected_right, focus_left, running>>
    /\ op' = name
    /\ ext' = "none"
    /\ calls' = <<>>
    /\ fetched' = <<>>
    /\ typed' = <<>>

\* a key or an entry that runs nothing
nothing(name) ==
    /\ UNCHANGED <<data, ui>>
    /\ op' = name
    /\ ext' = "none"
    /\ calls' = <<>>
    /\ fetched' = <<>>
    /\ typed' = <<>>

\* func(): the method a menu entry holds
call(func) ==
    CASE func = "add_allow_rule" -> add_allow_rule
      [] func = "add_deny_rule" -> add_deny_rule
      [] func = "delete_selected_rule" -> delete_selected_rule
      [] func = "toggle_firewall" -> toggle_firewall
      [] func = "reset_firewall" -> reset_firewall
      [] func = "change_view_rules" -> change_view("rules")
      [] func = "change_view_apps" -> change_view("apps")
      [] func = "change_view_listening" -> change_view("listening")
      [] func = "refresh" -> refresh
      [] func = "quit_app" -> quit_app
      [] OTHER -> nothing("execute_selected")

\* selected_entry, indexing the menu itself, separators and all
selected_entry_unskipped(cmds, index) == cmds[index + 1]

\* the entry execute_selected picks for a selection index
selected_entry(cmds, index) == Visible(cmds)[index + 1]

execute_selected ==
    IF selected_left < Len(Visible(left_commands))
    THEN LET e == selected_entry(left_commands, selected_left) IN
         IF e.func # "None" THEN call(e.func) ELSE nothing("execute_selected")
    ELSE nothing("execute_selected")

(***************************************************************************)
(* The screen.  A write is one addstr that reached the window: its row,    *)
(* its first column, the text after truncation, its attribute, and the     *)
(* place in draw_screen it comes from.  draw_screen is the sequence of     *)
(* writes of one call, in order.                                           *)
(***************************************************************************)
MinHeight == 10
MinWidth == 40

Height == size[1]
Width == size[2]
\* curses.LINES
LINES == size[1]

\* safe_addstr, writing the text whole wherever it is told to
safe_addstr_unclipped(y, x, text, attr, part) ==
    <<[y |-> y, x |-> x, text |-> text, attr |-> attr, part |-> part]>>

safe_addstr(y, x, text, attr, part) ==
    IF y >= Height \/ x >= Width THEN <<>>
    ELSE LET available_width == Width - x - 1 IN
         IF available_width <= 0 THEN <<>>
         ELSE IF y < 0 \/ x < 0 THEN <<>>  \* curses.error, ignored
         ELSE <<[y |-> y, x |-> x, text |-> Prefix(text, available_width),
                 attr |-> attr, part |-> part]>>

\* UFWRule.__str__
rule_str(rule) ==
    RJust(rule.num, 3) \o " " \o LJust(rule.action, 6) \o " " \o LJust(rule.to, 20)
        \o " from " \o rule.from_addr

\* f"{proto:<4} {port:<6} {state}"
port_str(p) == LJust(p[1], 4) \o " " \o LJust(p[2], 6) \o " " \o p[3]

RECURSIVE divider_rows(_, _)
\* for i in range(i, height - 2)
divider_rows(i, mid_col) ==
    IF i >= Height - 2 THEN <<>>
    ELSE safe_addstr(i, mid_col, "|", "normal", "divider") \o divider_rows(i + 1, mid_col)

RECURSIVE left_rows_unfocused(_, _, _, _)
\* left_rows, highlighting the selected entry whichever panel has the focus
left_rows_unfocused(i, y, visible_index, max_width) ==
    IF i > Len(left_commands) \/ y >= LINES - 3 THEN <<>>
    ELSE LET cmd == left_commands[i].cmd IN
         IF cmd = "" THEN left_rows_unfocused(i + 1, y + 1, visible_index, max_width)
         ELSE (IF visible_index = selected_left
               THEN safe_addstr(y, 1, LJust(" " \o cmd \o " ", max_width - 2), "selection", "menu")
               ELSE safe_addstr(y, 2, cmd, "normal", "menu"))
              \o left_rows_unfocused(i + 1, y + 1, visible_index + 1, max_width)

RECURSIVE left_rows(_, _, _, _)
\* the loop of draw_left_panel from entry i on
left_rows(i, y, visible_index, max_width) ==
    IF i > Len(left_commands) \/ y >= LINES - 3 THEN <<>>
    ELSE LET cmd == left_commands[i].cmd IN
         IF cmd = "" THEN left_rows(i + 1, y + 1, visible_index, max_width)
         ELSE (IF visible_index = selected_left /\ focus_left
               THEN safe_addstr(y, 1, LJust(" " \o cmd \o " ", max_width - 2), "selection", "menu")
               ELSE safe_addstr(y, 2, cmd, "normal", "menu"))
              \o left_rows(i + 1, y + 1, visible_index + 1, max_width)

draw_left_panel(max_width) ==
    safe_addstr(1, 2, "COMMANDS:", "normal", "left_title") \o left_rows(1, 3, 0, max_width)

RECURSIVE item_rows(_, _, _, _, _)
\* the loop of draw_rules_panel, draw_apps_panel, draw_listening_panel from
\* item i (counted from 0) on, texts being the items as they are shown
item_rows(texts, i, view, start_col, width) ==
    IF i >= Len(texts) \/ 3 + i >= LINES - 3 THEN <<>>
    ELSE (IF i = selected_right /\ current_view = view /\ ~focus_left
          THEN safe_addstr(3 + i, start_col - 1, LJust(" " \o texts[i + 1] \o " ", width),
                           "selection", "row")
          ELSE safe_addstr(3 + i, start_col, texts[i + 1], "normal", "row"))
         \o item_rows(texts, i + 1, view, start_col, width)

\* one of the three panels: its title, then the placeholder or the items
data_panel(title, none, texts, view, start_col, width) ==
    safe_addstr(1, start_col, title, "normal", "right_title")
    \o (IF Len(texts) = 0
        THEN safe_addstr(3, start_col, none, "normal", "placeholder")
        ELSE item_rows(texts, 0, view, start_col, width))

draw_rules_panel(start_col, width) ==
    data_panel("UFW RULES:", "No rules configured",
               [i \in 1..Len(rules) |-> rule_str(rules[i])], "rules", start_col, width)

draw_apps_panel(start_col, width) ==
    data_panel("APPLICATIONS:", "No applications available", apps, "apps", start_col, width)

draw_listening_panel(start_col, width) ==
    data_panel("LISTENING PORTS:", "No listening ports",
               [i \in 1..Len(listening_ports) |-> port_str(listening_ports[i])],
               "listening", start_col, width)

draw_right_panel(mid_col, max_width) ==
    LET start_col == mid_col + 2
        width == max_width - start_col - 2
    IN  IF width <= 0 THEN <<>>
        ELSE IF current_view = "rules" THEN draw_rules_panel(start_col, width)
        ELSE IF current_view = "apps" THEN draw_apps_panel(start_col, width)
        ELSE draw_listening_panel(start_col, width)

\* the attribute of the message line
msg_color(msg) == IF Contains("success", Lower(msg)) THEN "success" ELSE "error"

draw_message ==
    IF message # "" /\ Height > 3
    THEN safe_addstr(Height - 2, 2, message, msg_color(message), "message")
    ELSE <<>>

\* draw_screen past the test of the size: header, divider, panels, footer, message
draw_interface(active) ==
    LET status_text == IF active THEN "ACTIVE" ELSE "INACTIVE"
        header == " UFW TUI Manager - Status: " \o status_text \o " "
        mid_col == Width \div 2
        footer == " F1:Help F5:Refresh F10:Quit | View: " \o Upper(current_view) \o " "
    IN  safe_addstr(0, 0, LJust(header, Width), "header", "header")
        \o divider_rows(1, mid_col)
        \o draw_left_panel(mid_col)
        \o draw_right_panel(mid_col, Width)
        \o safe_addstr(Height - 1, 0, LJust(footer, Width), "header", "footer")
        \o draw_message

\* draw_screen, whatever the size of the terminal
draw_screen_unguarded(active) == draw_interface(active)

\* draw_screen, active being what get_ufw_status answers
draw_screen(active) ==
    IF Height < MinHeight \/ Width < MinWidth
    THEN safe_addstr(0, 0, "Terminal too small! Min: 40x10", "normal", "too_small")
    ELSE draw_interface(active)

(***************************************************************************)
(* handle_input, one action per branch, and the loop of run.               *)
(***************************************************************************)
\* getch returned k
Read(k) ==
    /\ pc = "input"
    /\ key' = k
    /\ UNCHANGED env

\* Loop, with the running flag never tested
Loop_forever == pc' = "draw"

\* while self.running: back to draw_screen, or out of the loop
Loop == pc' = IF running' THEN "draw" ELSE "done"

KeyQuit ==
    \E k \in {"q", "F10"} :
        /\ Read(k)
        /\ running' = FALSE
        /\ UNCHANGED <<data, current_view, selected_left, selected_right, focus_left, message>>
        /\ op' = "handle_input"
        /\ ext' = "none"
        /\ calls' = <<>>
        /\ fetched' = <<>>
        /\ typed' = <<>>
        /\ Loop

KeyRefresh == Read("F5") /\ refresh /\ Loop

KeyUp == Read("UP") /\ move_selection(-1, focus_left) /\ Loop

KeyDown == Read("DOWN") /\ move_selection(1, focus_left) /\ Loop

KeyLeft ==
    /\ Read("LEFT")
    /\ focus_left' = TRUE
    /\ UNCHANGED <<data, current_view, selected_left, selected_right, message, running>>
    /\ op' = "handle_input"
    /\ ext' = "none"
    /\ calls' = <<>>
    /\ fetched' = <<>>
    /\ typed' = <<>>
    /\ Loop

KeyRight ==
    /\ Read("RIGHT")
    /\ focus_left' = FALSE
    /\ UNCHANGED <<data, current_view, selected_left, selected_right, message, running>>
    /\ op' = "handle_input"
    /\ ext' = "none"
    /\ calls' = <<>>
    /\ fetched' = <<>>
    /\ typed' = <<>>
    /\ Loop

KeyEnter == Read("ENTER") /\ execute_selected /\ Loop

KeyView ==
    \E k \in {"1", "2", "3"} :
        /\ Read(k)
        /\ change_view(IF k = "1" THEN "rules" ELSE IF k = "2" THEN "apps" ELSE "listening")
        /\ Loop

\* keys no branch names: a letter, an upper-case 'Q', and F1, which the footer
\* offers as help
OtherKeys == {"x", "Q", "F1"}

\* any key no branch names
KeyOther == \E k \in OtherKeys : Read(k) /\ nothing("handle_input") /\ Loop

HandleInput ==
    \/ KeyQuit
    \/ KeyRefresh
    \/ KeyUp
    \/ KeyDown
    \/ KeyLeft
    \/ KeyRight
    \/ KeyEnter
    \/ KeyView
    \/ KeyOther

\* draw_screen as far as the state goes: it asks the tool for the status
\* unless the terminal is too small
DrawScreen ==
    /\ pc = "draw"
    /\ pc' = "input"
    /\ op' = "draw_screen"
    /\ ext' = "none"
    /\ calls' = IF Height < MinHeight \/ Width < MinWidth THEN <<>> ELSE <<StatusCmd>>
    /\ key' = ""
    /\ fetched' = <<>>
    /\ typed' = <<>>
    /\ UNCHANGED <<data, ui, env>>

\* the loop of run
Next == DrawScreen \/ HandleInput

Spec == Init /\ [][Next]_vars

(***************************************************************************)
(* execute_selected over any menu: the same program constructed with a     *)
(* menu of up to MaxMenu entries, each a separator or one of three entries *)
(* of the real menu, its first fetches having found nothing.  The keys are *)
(* those that move, focus and execute.                                     *)
(***************************************************************************)
MaxMenu == 4

MenuEntries ==
    { Entry("", "None"),
      Entry("View: Rules", "change_view_rules"),
      Entry("View: Applications", "change_view_apps"),
      Entry("Exit", "quit_app") }

Menus == UNION {[1..n -> MenuEntries] : n \in 0..MaxMenu}

InitMenu ==
    /\ InitWith(Menus, TermSizes)
    /\ rules = <<>>
    /\ apps = <<>>
    /\ listening_ports = <<>>

NextMenu == DrawScreen \/ KeyUp \/ KeyDown \/ KeyLeft \/ KeyRight \/ KeyEnter

SpecMenu == InitMenu /\ [][NextMenu]_vars

(***************************************************************************)
(* draw_screen over terminals of many sizes: the same program started in a *)
(* terminal of any height and width up to MaxHeight and MaxWidth, too      *)
(* small ones included.  The keys are those that move the selections, the  *)
(* focus and the view.                                                     *)
(***************************************************************************)
MaxHeight == 11
MaxWidth == 41

\* the least height at which no menu entry is cut off
FullHeight == 3 + Len(LeftCommands) + 3

RenderSizes ==
    {<<h, w>> : h \in {0, MinHeight - 1, FullHeight} \cup MinHeight..MaxHeight,
                w \in {0, 1, MinWidth - 1} \cup MinWidth..MaxWidth}

InitRender == InitWith({LeftCommands}, RenderSizes)

NextRender == DrawScreen \/ KeyDown \/ KeyLeft \/ KeyRight \/ KeyView

SpecRender == InitRender /\ [][NextRender]_vars

(***************************************************************************)
(* Notions the properties below are stated with.                           *)
(***************************************************************************)
\* the number of entries of a menu that have a label
SelectableCount(cmds) == Cardinality({q \in DOMAIN cmds : cmds[q].cmd # ""})

\* the k-th entry with a label, counted from 0 in declaration order
KthLabelled(cmds, k) ==
    cmds[CHOOSE q \in DOMAIN cmds :
            /\ cmds[q].cmd # ""
            /\ Cardinality({r \in 1..(q - 1) : cmds[r].cmd # ""}) = k]

\* the last step ran the method of entry e, and no other
Ran(e) ==
    CASE e.func = "change_view_rules" -> op = "change_view" /\ current_view = "rules"
      [] e.func = "change_view_apps" -> op = "change_view" /\ current_view = "apps"
      [] e.func = "change_view_listening" -> op = "change_view" /\ current_view = "listening"
      [] OTHER -> e.func # "None" /\ op = e.func

\* the view kind a 'View:' label names
ViewOfLabel(cmd) ==
    CASE cmd = "View: Rules" -> "rules"
      [] cmd = "View: Applications" -> "apps"
      [] cmd = "View: Listening ports" -> "listening"
      [] OTHER -> "none"

\* the last step was the render
Rendered == pc = "input" /\ op = "draw_screen"

\* the columns a write occupies
FirstCol(w) == w.x
LastCol(w) == w.x + Len(w.text) - 1

(***************************************************************************)
(* C1: in every reachable state the right selection is not negative and,   *)
(* whenever the collection of the current view is not empty, is less than  *)
(* its length.  The code does not keep this: refresh replaces the          *)
(* collections and leaves selected_right where it was.                     *)
(***************************************************************************)
C1_RightSelectionInRange ==
    /\ selected_right >= 0
    /\ Len(ActiveCollection) > 0 => selected_right < Len(ActiveCollection)

(***************************************************************************)
(* C2: the collections change only in a step that is a Refresh (F5 or the  *)
(* 'Refresh data' entry) or a mutating action whose external call          *)
(* succeeded; a step whose external call failed leaves them as they were.  *)
(* The code does not keep this: reset_firewall refreshes whatever the exit *)
(* code of the reset was.                                                  *)
(***************************************************************************)
C2_DataChangesOnlyOnRefreshOrSuccess ==
    [][ /\ data' # data => (op' = "refresh" \/ ext' = "ok")
        /\ ext' = "failed" => data' = data ]_vars

(***************************************************************************)
(* C3: after a step that called the firewall tool to change something, the *)
(* next render draws the message in the success style when the call        *)
(* succeeded and in the error style when it failed.  The code does not     *)
(* keep this: no message left after a success holds the word the style is  *)
(* chosen by.                                                              *)
(***************************************************************************)
C3_StyleFollowsOutcome ==
    (pc = "draw" /\ Height >= MinHeight /\ ext # "none") =>
        \E i \in DOMAIN draw_message :
            /\ draw_message[i].part = "message"
            /\ draw_message[i].attr = (IF ext = "ok" THEN "success" ELSE "error")

(***************************************************************************)
(* C4: on a terminal at least 40 wide and 10 high no menu label reaches    *)
(* the divider column width/2 or beyond, and no row of the right panel     *)
(* starts at or left of it.  The code does not keep this: it truncates at  *)
(* the window's width, not at the panel's.                                 *)
(***************************************************************************)
C4_TextStaysInItsPanel ==
    (Rendered /\ Height >= MinHeight /\ Width >= MinWidth) =>
        \A active \in BOOLEAN :
            LET screen == draw_screen(active)
                mid_col == Width \div 2
            IN  \A i \in DOMAIN screen :
                    /\ screen[i].part = "menu" => LastCol(screen[i]) < mid_col
                    /\ screen[i].part \in {"row", "placeholder", "right_title"}
                           => FirstCol(screen[i]) > mid_col

(***************************************************************************)
(* C5: the render step and the dispatch of the navigation, focus and view  *)
(* keys run no external process.  The code does not keep this: draw_screen *)
(* asks the firewall tool for its status on every render.                  *)
(***************************************************************************)
C5_RenderAndNavigationCallNothing ==
    /\ op = "draw_screen" => calls = <<>>
    /\ key \in {"UP", "DOWN", "LEFT", "RIGHT", "1", "2", "3"} => calls = <<>>

(***************************************************************************)
(* C6: with the focus right and the collection of the current view empty,  *)
(* an Up or Down key leaves the right selection at 0.  The code leaves it  *)
(* where it was, which after a refresh that emptied the collection need    *)
(* not be 0 (see C1).                                                      *)
(***************************************************************************)
C6_MoveOnEmptyLeavesZero ==
    [][ (~focus_left /\ Len(ActiveCollection) = 0 /\ key' \in {"UP", "DOWN"})
            => selected_right' = 0 ]_vars

(***************************************************************************)
(* C7: Up and Down saturate.  From every reachable state, N+5 Down keys in *)
(* a row leave the selection of the focused panel at N-1 and N+5 Up keys   *)
(* leave it at 0, N > 0 being the size of the active collection (focus     *)
(* right) or the number of labelled menu entries (focus left).             *)
(* C7_KeyStep: every Up or Down key read moves the selection of the        *)
(* focused panel by one clamped step and changes neither the other         *)
(* selection nor the focus, the view, the menu or the data, and the render *)
(* between two keys changes none of them; so k keys in a row are k such    *)
(* steps, which C7_Runs takes from every state reached.                    *)
(***************************************************************************)
RECURSIVE AfterKeys(_, _, _, _)
\* the selection after k keys in a direction, max_index being the last index
AfterKeys(selected, direction, max_index, k) ==
    IF k = 0 THEN selected
    ELSE AfterKeys(clamped(selected, direction, max_index), direction, max_index, k - 1)

C7_Runs ==
    LET N == Len(ActiveCollection)
        L == SelectableCount(left_commands)
    IN  /\ (~focus_left /\ N > 0) =>
            /\ AfterKeys(selected_right, 1, N - 1, N + 5) = N - 1
            /\ AfterKeys(selected_right, -1, N - 1, N + 5) = 0
        /\ (focus_left /\ L > 0) =>
            /\ AfterKeys(selected_left, 1, L - 1, L + 5) = L - 1
            /\ AfterKeys(selected_left, -1, L - 1, L + 5) = 0

C7_KeyStep ==
    /\ key' \in {"UP", "DOWN"} =>
            LET d == IF key' = "DOWN" THEN 1 ELSE -1
                N == Len(ActiveCollection)
                L == SelectableCount(left_commands)
            IN  /\ UNCHANGED <<focus_left, current_view, left_commands, data>>
                /\ IF focus_left
                   THEN /\ selected_left' = clamped(selected_left, d, L - 1)
                        /\ UNCHANGED selected_right
                   ELSE /\ selected_right' = clamped(selected_right, d, N - 1)
                        /\ UNCHANGED selected_left
    /\ op' = "draw_screen" =>
            UNCHANGED <<focus_left, current_view, left_commands, data, selected_left, selected_right>>

\* C7: N+5 Down keys in a row leave the focused selection at N-1, N+5 Up keys
\* at 0: each key is one step of C7_KeyStep, and C7_Runs holds of every state
C7_MoveSaturates == []C7_Runs /\ [][C7_KeyStep]_vars

\* a Down key was read with the focus right and left the selection on the
\* last of two rules
C7_Witness ==
    /\ key = "DOWN"
    /\ ~focus_left
    /\ current_view = "rules"
    /\ Len(rules) = 2
    /\ selected_right = 1

(***************************************************************************)
(* C8: a SetView, by a digit key or by a 'View:' entry, sets the view to   *)
(* the kind asked for and the right selection to 0, and leaves the focus,  *)
(* the left selection and the data as they were.                           *)
(***************************************************************************)
C8_SetViewFrame ==
    [][ op' = "change_view" =>
            LET kind == CASE key' = "1" -> "rules"
                          [] key' = "2" -> "apps"
                          [] key' = "3" -> "listening"
                          [] OTHER -> ViewOfLabel(KthLabelled(left_commands, selected_left).cmd)
            IN  /\ current_view' = kind
                /\ selected_right' = 0
                /\ UNCHANGED <<focus_left, selected_left, data>> ]_vars

\* the 'View: Listening ports' entry was executed with the focus right and
\* two rules held
C8_Witness ==
    /\ op = "change_view"
    /\ key = "ENTER"
    /\ current_view = "listening"
    /\ ~focus_left
    /\ Len(rules) = 2
    /\ selected_right = 0

(***************************************************************************)
(* C9: for every menu and every selection index k below the number of      *)
(* labelled entries, Enter runs the method of the k-th labelled entry in   *)
(* declaration order, never a separator's, whichever panel has the focus.  *)
(***************************************************************************)
C9_EnterRunsKthLabelled ==
    (key = "ENTER" /\ selected_left < SelectableCount(left_commands)) =>
        Ran(KthLabelled(left_commands, selected_left))

\* the menu [A, separator, B, C] with index 1 executed, the focus right: B ran
C9_Witness ==
    /\ left_commands = << Entry("View: Rules", "change_view_rules"), Entry("", "None"),
                          Entry("View: Applications", "change_view_apps"),
                          Entry("Exit", "quit_app") >>
    /\ key = "ENTER"
    /\ selected_left = 1
    /\ ~focus_left
    /\ op = "change_view"
    /\ current_view = "apps"

(***************************************************************************)
(* C10: with the fixed menu the left selection always lies in 0..9, its    *)
(* ten labelled entries, so Enter never finds the index past the end and   *)
(* always runs the one method of the entry selected.                       *)
(***************************************************************************)
C10_LeftSelectionInRange ==
    /\ SelectableCount(left_commands) = 10
    /\ selected_left \in 0..(SelectableCount(left_commands) - 1)
    /\ key = "ENTER" =>
            /\ op # "execute_selected"
            /\ Ran(KthLabelled(left_commands, selected_left))

\* Enter on the last entry, 'Exit'
C10_Witness ==
    /\ key = "ENTER"
    /\ selected_left = 9
    /\ op = "quit_app"
    /\ ~running

(***************************************************************************)
(* C11: after a step whose external call failed (a non-zero exit code or a *)
(* timeout, whatever the error text) the loop is still running and about   *)
(* to render, a message that is not empty is pending and the render draws  *)
(* it, and the failed command was run once only.  The code does not keep   *)
(* this: the message is the error text of the tool, which can be empty.    *)
(***************************************************************************)
\* the commands of the last step that change the firewall
MutatingCalls == {i \in DOMAIN calls : calls[i] \notin {StatusCmd, RulesCmd, AppsCmd, PortsCmd}}

C11_FailureLeavesMessage ==
    ext = "failed" =>
        /\ running
        /\ pc = "draw"
        /\ message # ""
        /\ \E i \in DOMAIN draw_message : draw_message[i].part = "message"
        /\ Cardinality(MutatingCalls) = 1

(***************************************************************************)
(* C12: a Refresh runs the three fetches and leaves the loop running; each *)
(* collection is then what its own fetch returned, empty when that fetch   *)
(* failed, whatever the other fetches did and whatever was held before.    *)
(***************************************************************************)
\* what a fetch leaves in its collection
Fetched(res) == IF res.code = 0 THEN res.items ELSE <<>>

C12_RefreshReplacesSnapshot ==
    /\ op = "refresh" =>
            /\ calls = <<RulesCmd, AppsCmd, PortsCmd>>
            /\ Len(fetched) = 3
            /\ running
            /\ pc = "draw"
    /\ fetched # <<>> =>
            /\ rules = Fetched(fetched[1])
            /\ apps = Fetched(fetched[2])
            /\ listening_ports = Fetched(fetched[3])

\* a Refresh whose rule fetch failed and whose application fetch did not,
\* two rules having been held before (the selection is still on the second)
C12_Witness ==
    /\ op = "refresh"
    /\ fetched[1].code # 0
    /\ rules = <<>>
    /\ current_view = "rules"
    /\ selected_right = 1
    /\ fetched[2].code = 0
    /\ apps # <<>>

(***************************************************************************)
(* C13: a step in which an add or a delete succeeded re-fetches the rule   *)
(* list after the command, before the loop goes on to render and read, and *)
(* holds what the fetch returned; the rule list changes in no step but by  *)
(* such a fetch; and the ordinal a delete passes is that of the selected   *)
(* rule in the list held, so it comes from the latest fetch.               *)
(***************************************************************************)
C13_RefetchAfterAddOrDelete ==
    [][ /\ (op' \in {"add_allow_rule", "add_deny_rule", "delete_selected_rule"} /\ ext' = "ok") =>
                /\ Len(calls') >= 2
                /\ calls'[1] \notin {StatusCmd, RulesCmd, AppsCmd, PortsCmd}
                /\ calls'[2] = RulesCmd
                /\ fetched' # <<>>
                /\ rules' = Fetched(fetched'[1])
                /\ pc' = "draw"
        /\ rules' # rules => (fetched' # <<>> /\ rules' = Fetched(fetched'[1]))
        /\ (op' = "delete_selected_rule" /\ calls' # <<>>) =>
                calls'[1] = <<"sudo", "ufw", "delete", rules[selected_right + 1].num>> ]_vars

\* the second of two rules was deleted and the fetch that followed lists one
C13_Witness ==
    /\ op = "delete_selected_rule"
    /\ ext = "ok"
    /\ calls[1] = <<"sudo", "ufw", "delete", "2">>
    /\ fetched[1].code = 0
    /\ Len(rules) = 1

(***************************************************************************)
(* C14: on a terminal at least 40 wide and 10 high every write of a render *)
(* lies inside the window: its row is in 0..height-1 and the columns of    *)
(* its text are in 0..width-1, whatever is selected, held or pending.      *)
(***************************************************************************)
C14_WritesInsideWindow ==
    (Rendered /\ Height >= MinHeight /\ Width >= MinWidth) =>
        \A active \in BOOLEAN :
            LET screen == draw_screen(active)
            IN  /\ screen # <<>>
                /\ \A i \in DOMAIN screen :
                        /\ screen[i].y \in 0..(Height - 1)
                        /\ FirstCol(screen[i]) \in 0..(Width - 1)
                        /\ LastCol(screen[i]) < Width

\* a render at the least size, 40 by 10, whose highlighted rule row was cut
\* at the window's edge
C14_Witness ==
    /\ Rendered
    /\ size = <<MinHeight, MinWidth>>
    /\ ~focus_left
    /\ current_view = "rules"
    /\ message # ""
    /\ \E i \in DOMAIN draw_screen(TRUE) :
            LET w == draw_screen(TRUE)[i]
            IN  /\ w.part = "row"
                /\ w.attr = "selection"
                /\ w.y = 3 + selected_right
                /\ LastCol(w) = Width - 2
                /\ Len(w.text) < Len(rule_str(rules[selected_right + 1]))

(***************************************************************************)
(* C15: on a terminal less than 40 wide or less than 10 high a render      *)
(* writes nothing but the notice: at most one write, on row 0 from column  *)
(* 0, a beginning of the notice that fits the width, and that one write    *)
(* whenever the window has a row and two columns.                          *)
(***************************************************************************)
Notice == "Terminal too small! Min: 40x10"

C15_TooSmallNoticeOnly ==
    (Rendered /\ (Height < MinHeight \/ Width < MinWidth)) =>
        \A active \in BOOLEAN :
            LET screen == draw_screen(active)
            IN  /\ Len(screen) <= 1
                /\ (Height >= 1 /\ Width >= 2) => Len(screen) = 1
                /\ \A i \in DOMAIN screen :
                        /\ screen[i].part = "too_small"
                        /\ screen[i].y = 0
                        /\ screen[i].x = 0
                        /\ screen[i].text # ""
                        /\ screen[i].text = SubSeq(Notice, 1, Len(screen[i].text))
                        /\ Len(screen[i].text) <= Width

\* a render on a terminal wide enough and one row too low, a message pending
\* and a row of the right panel selected
C15_Witness ==
    /\ Rendered
    /\ size = <<MinHeight - 1, MinWidth>>
    /\ message # ""
    /\ ~focus_left
    /\ rules # <<>>
    /\ Len(draw_screen(TRUE)) = 1
    /\ draw_screen(TRUE)[1].text = Notice

(***************************************************************************)
(* C16: Enter on 'Add ALLOW rule' (on 'Add DENY rule') with the text t     *)
(* typed runs one command that changes the firewall, the tool with the     *)
(* arguments 'allow' ('deny') and then the tokens of t, its runs of        *)
(* characters other than blanks, in order; when t has no token it runs no  *)
(* command and changes nothing of the program's state.                     *)
(***************************************************************************)
\* where the tokens of t begin
TokenStarts(t) ==
    {i \in 1..Len(t) : CharAt(t, i) # " " /\ (i = 1 \/ CharAt(t, i - 1) = " ")}

\* where the token that begins at i ends
TokenEnd(t, i) ==
    CHOOSE j \in i..Len(t) :
        /\ \A k \in i..j : CharAt(t, k) # " "
        /\ j = Len(t) \/ CharAt(t, j + 1) = " "

\* the tokens of t, in order
Tokens(t) ==
    LET starts == TokenStarts(t)
        nth(k) == CHOOSE i \in starts : Cardinality({q \in starts : q < i}) = k - 1
    IN  [k \in 1..Cardinality(starts) |-> SubSeq(t, nth(k), TokenEnd(t, nth(k)))]

\* what the last step ran, when it was one of the two add actions
C16_Call ==
    op \in {"add_allow_rule", "add_deny_rule"} =>
        LET word == IF op = "add_allow_rule" THEN "allow" ELSE "deny"
            tokens == Tokens(typed[1])
        IN  /\ key = "ENTER"
            /\ Len(typed) = 1
            /\ IF Len(tokens) = 0
               THEN calls = <<>>
               ELSE /\ Cardinality(MutatingCalls) = 1
                    /\ \A i \in MutatingCalls : calls[i] = <<"sudo", "ufw", word>> \o tokens

\* an add action that ran no command changed nothing
C16_NoCall ==
    (op' \in {"add_allow_rule", "add_deny_rule"} /\ calls' = <<>>) =>
        /\ KthLabelled(left_commands, selected_left).cmd \in {"Add ALLOW rule", "Add DENY rule"}
        /\ UNCHANGED <<data, ui>>

\* C16: the add actions run the tool once with the action word and the tokens
\* of the text typed, and nothing, changing nothing, when the text has none
C16_AddCallArguments == []C16_Call /\ [][C16_NoCall]_vars

\* 'Add DENY rule' with a text of two tokens two blanks apart, accepted
C16_Witness ==
    /\ key = "ENTER"
    /\ op = "add_deny_rule"
    /\ typed = <<"from  10.0.0.1">>
    /\ calls[1] = <<"sudo", "ufw", "deny", "from", "10.0.0.1">>
    /\ ext = "ok"

(***************************************************************************)
(* C17: the loop renders, then reads one key and dispatches it, and so on; *)
(* it ends exactly when the key read is 'q' or F10, or Enter with 'Exit'   *)
(* selected, and that step runs no command; once it has ended there is no  *)
(* further step: no render, no read, no command.                           *)
(***************************************************************************)
\* the loop has ended exactly when the running flag is down
C17_Ended == (pc = "done") <=> ~running

C17_Step ==
    /\ pc # "done"
    /\ pc = "draw" => (op' = "draw_screen" /\ key' = "" /\ pc' = "input")
    /\ pc = "input" => (op' # "draw_screen" /\ key' # "" /\ pc' \in {"draw", "done"})
    /\ pc' = "done" <=>
            /\ pc = "input"
            /\ \/ key' \in {"q", "F10"}
               \/ key' = "ENTER" /\ KthLabelled(left_commands, selected_left).cmd = "Exit"
    /\ pc' = "done" => calls' = <<>>

\* C17: render, read, dispatch in turn, ended by a quit and by nothing else
C17_LoopOrder == []C17_Ended /\ [][C17_Step]_vars

\* the loop ended by Enter on 'Exit' after a refresh
C17_Witness ==
    /\ pc = "done"
    /\ key = "ENTER"
    /\ op = "quit_app"
    /\ message = "Data refreshed"

(***************************************************************************)
(* C18: a key other than 'q', F10, F5, Up, Down, Left, Right, Enter, '1',  *)
(* '2' and '3' leaves the view, the focus, both selections, the message,   *)
(* the data and the running flag as they were and runs no command, and the *)
(* loop goes on to the next render.                                        *)
(***************************************************************************)
NamedKeys == {"q", "F10", "F5", "UP", "DOWN", "LEFT", "RIGHT", "ENTER", "1", "2", "3"}

C18_OtherKeysDoNothing ==
    [][ (pc = "input" /\ key' \notin NamedKeys) =>
            /\ UNCHANGED <<current_view, focus_left, selected_left, selected_right>>
            /\ UNCHANGED <<message, data, running>>
            /\ calls' = <<>>
            /\ pc' = "draw" ]_vars

\* F1 read with a message pending, the focus right and the second row selected
C18_Witness ==
    /\ key = "F1"
    /\ pc = "draw"
    /\ message = "Data refreshed"
    /\ ~focus_left
    /\ selected_right = 1

(***************************************************************************)
(* C19: 'Delete rule' runs the tool only with the Rules view current, the  *)
(* right selection inside the rule list and a confirmation of 'y' or 'Y',  *)
(* and then deletes the ordinal of the selected rule of the list held;     *)
(* with another view or the selection past the list it asks nothing, runs  *)
(* nothing and sets the message 'Select a rule to delete'; with any other  *)
(* confirmation it runs nothing and changes nothing.                       *)
(***************************************************************************)
\* t without the blanks around it
Trimmed(t) ==
    LET solid == {i \in 1..Len(t) : CharAt(t, i) # " "}
    IN  IF solid = {} THEN ""
        ELSE SubSeq(t, CHOOSE i \in solid : \A q \in solid : i <= q,
                       CHOOSE i \in solid : \A q \in solid : i >= q)

C19_DeleteGuards ==
    [][ op' = "delete_selected_rule" =>
            IF current_view = "rules" /\ selected_right \in 0..(Len(rules) - 1)
            THEN /\ Len(typed') = 1
                 /\ IF Trimmed(typed'[1]) \in {"y", "Y"}
                    THEN /\ Cardinality(MutatingCalls') = 1
                         /\ calls'[1] = <<"sudo", "ufw", "delete", rules[selected_right + 1].num>>
                    ELSE /\ calls' = <<>>
                         /\ UNCHANGED <<data, ui>>
            ELSE /\ typed' = <<>>
                 /\ calls' = <<>>
                 /\ message' = "Select a rule to delete"
                 /\ UNCHANGED <<data, current_view, selected_left, selected_right,
                                focus_left, running>> ]_vars

\* the second of two rules, confirmed with ' Y', the tool refusing
C19_Witness ==
    /\ op = "delete_selected_rule"
    /\ typed = <<" Y">>
    /\ ext = "failed"
    /\ current_view = "rules"
    /\ selected_right = 1
    /\ Len(rules) = 2
    /\ calls = <<<<"sudo", "ufw", "delete", "2">>>>

(***************************************************************************)
(* C20: a step that refreshes (F5, 'Refresh data', or the refresh after a  *)
(* mutation) leaves the view, the focus and both selections as they were,  *)
(* whatever the fetches returned.                                          *)
(***************************************************************************)
C20_RefreshKeepsViewState ==
    [][ (fetched' # <<>> \/ op' = "refresh") =>
            /\ fetched' # <<>>
            /\ UNCHANGED <<current_view, focus_left, selected_left, selected_right>> ]_vars

\* the refresh after an accepted add found one rule where two were held, the
\* second selected: the selection stayed where it was
C20_Witness ==
    /\ op = "add_allow_rule"
    /\ ext = "ok"
    /\ fetched # <<>>
    /\ current_view = "rules"
    /\ ~focus_left
    /\ selected_right = 1
    /\ Len(rules) = 1

(***************************************************************************)
(* C21: in every render at most one write carries the selection style, and *)
(* it is a row of the panel that has the focus: a menu row only with the   *)
(* focus left, a data row only with the focus right, and then the row of   *)
(* the right selection in the collection of the current view.              *)
(***************************************************************************)
\* the writes of a screen that carry the selection style
Highlighted(screen) == {i \in DOMAIN screen : screen[i].attr = "selection"}

C21_OneHighlightInFocusedPanel ==
    Rendered =>
        \A active \in BOOLEAN :
            LET screen == draw_screen(active)
                lit == Highlighted(screen)
            IN  /\ Cardinality(lit) <= 1
                /\ \A i \in lit :
                        /\ screen[i].part \in {"menu", "row"}
                        /\ screen[i].part = "menu" => focus_left
                        /\ screen[i].part = "row" =>
                                /\ ~focus_left
                                /\ selected_right < Len(ActiveCollection)
                                /\ screen[i].y = 3 + selected_right

\* a render with the focus right, the Applications view current and rules
\* held: the one highlighted write is the row of the application selected
C21_Witness ==
    /\ Rendered
    /\ ~focus_left
    /\ current_view = "apps"
    /\ rules # <<>>
    /\ apps # <<>>
    /\ Cardinality(Highlighted(draw_screen(TRUE))) = 1
    /\ \E i \in Highlighted(draw_screen(TRUE)) : draw_screen(TRUE)[i].part = "row"

====
